---- MODULE Spec2Model ----
(***************************************************************************)
(* Model of laj3 (src/main.rs): the manifest differ, the archiver, the     *)
(* manifest wire framing, the manifest builder, the connection handler and *)
(* the worker pool of the sync server.                                     *)
(***************************************************************************)
EXTENDS Integers, Sequences, FiniteSets, TLC

VARIABLES
    \* the differ on its own: diff_dict(d_client, d_server)
    d_client, d_server, d_result, d_done,
    \* the server's working directory: file contents, and the files File::open opens
    files, canOpen,
    \* the archiver on its own: compress_files(z_paths)
    z_paths, z_finishOk, z_out, z_done,
    \* the manifest framing on its own: send_file, then the server's read and parse
    w_content, w_readable, w_stream, w_got, w_pc,
    \* the server's manifest file base.dict
    baseDict,
    \* one handle_connection per accepted connection: its position, the bytes
    \* its client sends, client_dict, diffs, compressed, the writes made to
    \* the connection, the calls made so far, how often the job was started
    c_pc, c_stream, c_dict, c_diffs, c_zip, c_written, c_trace, c_runs,
    \* the ThreadPool: the channel, pool.sender, each worker thread and its
    \* job, the holder of the receiver's mutex, and the main thread
    queue, sender, t_state, t_job, mutex, m_pc, m_join,
    \* the manifest builder on its own: the tree under the root path (each
    \* node's parent, kind and whether it can be read), the root path given
    \* on the command line, the recursive flag, and add_to_dict's result
    b_parent, b_kind, b_ok, b_root, b_recursive, b_out, b_done,
    \* the install client: its position, the manifest file it was given (its
    \* text and whether it can be read), the bytes read_to_end returned,
    \* output.zip, and whether an error was reported
    i_pc, i_content, i_readable, i_received, i_output, i_error

diffVars == <<d_client, d_server, d_result, d_done>>
fsVars == <<files, canOpen>>
archVars == <<z_paths, z_finishOk, z_out, z_done>>
wireVars == <<w_content, w_readable, w_stream, w_got, w_pc>>
connVars == <<baseDict, c_pc, c_stream, c_dict, c_diffs, c_zip, c_written, c_trace, c_runs>>
poolVars == <<queue, sender, t_state, t_job, mutex, m_pc, m_join>>
buildVars == <<b_parent, b_kind, b_ok, b_root, b_recursive, b_out, b_done>>
installVars == <<i_pc, i_content, i_readable, i_received, i_output, i_error>>
vars == <<diffVars, fsVars, archVars, wireVars, connVars, poolVars, buildVars, installVars>>

(* ------------------------------ bounds --------------------------------- *)
\* number of distinct file paths that occur in manifests and archives
MaxPaths == 2
\* number of distinct fingerprints
MaxHash == 2
\* longest manifest file, in tokens, sent through send_file on its own
MaxLen == 4
\* connections accepted by the server in one run
MaxConns == 3
\* workers of the pool in the model (the server builds its pool with PoolSizeInSource)
PoolSize == 2
PoolSizeInSource == 10

\* files and directories below the root path of a build
MaxNodes == 3

Conns == 1..MaxConns
Workers == 1..PoolSize

Paths == 1..MaxPaths
Hashes == 1..MaxHash

(* --------------------------- manifests --------------------------------- *)
\* serde_json::Map<String, Value>: a finite mapping from path to value
Manifests == UNION {[D -> Hashes] : D \in SUBSET Paths}

EmptyManifest == [p \in {} |-> 0]

RECURSIVE KeysOf(_)
\* iteration order of serde_json::Map (a BTreeMap): ascending key order
KeysOf(S) ==
    IF S = {} THEN <<>>
    ELSE LET m == CHOOSE x \in S : \A y \in S : x <= y
         IN <<m>> \o KeysOf(S \ {m})

Range(s) == {s[i] : i \in 1..Len(s)}

(* ------------------------------ diff_dict ------------------------------ *)
\* diff_dict without the second pass (server-only paths are forgotten)
diff_dict_no_second_pass(dict1, dict2) ==
    SelectSeq(KeysOf(DOMAIN dict1),
              LAMBDA k : k \notin DOMAIN dict2 \/ dict1[k] # dict2[k])

\* diff_dict whose first pass has lost its test (every client path is pushed)
diff_dict_no_test(dict1, dict2) ==
    SelectSeq(KeysOf(DOMAIN dict1), LAMBDA k : TRUE)
    \o SelectSeq(KeysOf(DOMAIN dict2), LAMBDA k : k \notin DOMAIN dict1)

diff_dict(dict1, dict2) ==
    LET pass1 == SelectSeq(KeysOf(DOMAIN dict1),
                           LAMBDA k : k \notin DOMAIN dict2 \/ dict1[k] # dict2[k])
        pass2 == SelectSeq(KeysOf(DOMAIN dict2),
                           LAMBDA k : k \notin DOMAIN dict1)
    IN pass1 \o pass2

(* --------------------------- compress_files ---------------------------- *)
\* a file's bytes: an empty file and one with data
Contents == {<<>>, <<1>>}

\* the sequences over S that name each element at most once
RECURSIVE Arrangements(_)
Arrangements(S) ==
    {<<>>} \cup UNION {{<<x>> \o t : t \in Arrangements(S \ {x})} : x \in S}

NoArchive == [ok |-> FALSE, entries |-> <<>>]

\* one turn of the loop of compress_files: start_file(path) comes first, then
\* File::open, io::copy and write_all; a failure after start_file leaves the
\* started entry in the archive with no data
zip_entry(acc, path, fileOf, opens) ==
    IF path \in opens
    THEN Append(acc, [name |-> path, data |-> fileOf[path]])
    ELSE Append(acc, [name |-> path, data |-> <<>>])

RECURSIVE zip_entries(_, _, _, _)
zip_entries(acc, paths, fileOf, opens) ==
    IF paths = <<>> THEN acc
    ELSE zip_entries(zip_entry(acc, Head(paths), fileOf, opens), Tail(paths), fileOf, opens)

\* compress_files: Ok(bytes) when zip.finish() succeeds, Err(()) otherwise
compress_files(paths, fileOf, opens, finishOk) ==
    IF finishOk
    THEN [ok |-> TRUE, entries |-> zip_entries(<<>>, paths, fileOf, opens)]
    ELSE NoArchive

EntryNames(entries) == {entries[i].name : i \in 1..Len(entries)}

(* ------------------------ manifest text on the wire -------------------- *)
\* The tokens of a manifest text. A KV token stands for one  "path":"hash"
\* member of the JSON object together with its separating comma.
LF == <<"LF">>
CR == <<"CR">>
LBrace == <<"{">>
RBrace == <<"}">>
KV(p, h) == <<"kv", p, h>>
IsKV(t) == t[1] = "kv"
IsSpace(t) == t = LF \/ t = CR

\* serde_json::to_string of a manifest: one line, no white space
RECURSIVE to_string_members(_, _)
to_string_members(m, keys) ==
    IF keys = <<>> THEN <<>>
    ELSE <<KV(Head(keys), m[Head(keys)])>> \o to_string_members(m, Tail(keys))

to_string(m) == <<LBrace>> \o to_string_members(m, KeysOf(DOMAIN m)) \o <<RBrace>>

RECURSIVE members_to_map(_)
\* the members of a JSON object as a Map: a repeated key keeps its last value
members_to_map(ts) ==
    IF ts = <<>> THEN EmptyManifest
    ELSE LET front == members_to_map(SubSeq(ts, 1, Len(ts) - 1))
             last == ts[Len(ts)]
         IN [k \in DOMAIN front \cup {last[2]} |->
                IF k = last[2] THEN last[3] ELSE front[k]]

ParseError == [ok |-> FALSE, dict |-> EmptyManifest]

\* serde_json::from_str::<Map<String, _>>: white space between tokens is
\* skipped, the rest must be one JSON object
from_str(text) ==
    LET t == SelectSeq(text, LAMBDA c : ~IsSpace(c))
    IN IF /\ Len(t) >= 2
          /\ t[1] = LBrace
          /\ t[Len(t)] = RBrace
          /\ \A i \in 2..(Len(t) - 1) : IsKV(t[i])
       THEN [ok |-> TRUE, dict |-> members_to_map(SubSeq(t, 2, Len(t) - 1))]
       ELSE ParseError

\* BufRead::lines strips the "\n" of a line and one "\r" before it
strip_line(cur) ==
    IF cur # <<>> /\ cur[Len(cur)] = CR THEN SubSeq(cur, 1, Len(cur) - 1) ELSE cur

RECURSIVE read_lines(_, _, _, _)
\* buf_reader.lines().map(unwrap).take_while(non-empty).collect().join(""):
\* bytes is what is still to come on the stream, end how the stream ends
\* ("eof": the peer closed; "open": the peer sends no more and stays
\* connected; "err": a read error or a line that is not UTF-8), cur the line
\* being read and text the lines taken so far
read_lines(bytes, end, cur, text) ==
    IF bytes = <<>>
    THEN CASE end = "eof" -> [status |-> "text", text |-> text \o cur]
           [] end = "open" -> [status |-> "blocked", text |-> <<>>]
           [] OTHER -> [status |-> "panic", text |-> <<>>]
    ELSE IF Head(bytes) = LF
         THEN IF strip_line(cur) = <<>>
              THEN [status |-> "text", text |-> text]
              ELSE read_lines(Tail(bytes), end, <<>>, text \o strip_line(cur))
         ELSE read_lines(Tail(bytes), end, Append(cur, Head(bytes)), text)

\* a read that gives up on a silent client as if the stream had ended
read_manifest_timeout(stream) ==
    read_lines(stream.bytes, IF stream.end = "open" THEN "eof" ELSE stream.end,
               <<>>, <<>>)

read_manifest(stream) == read_lines(stream.bytes, stream.end, <<>>, <<>>)

\* send_file: the file's text followed by "\r\n\r\n"; nothing when the file
\* cannot be opened or read
send_file(content, readable) ==
    IF readable THEN content \o <<CR, LF, CR, LF>> ELSE <<>>

(* ------------------------------ add_to_dict ----------------------------- *)
\* Node 0 is the root path; node n > 0 is a file or directory named
\* Letters[n] in the directory b_parent[n]. Paths are strings of one-byte
\* characters.
Letters == <<"a", "b", "c", "d", "e", "f">>

RECURSIVE path_of(_, _, _)
\* DirEntry::path(): the directory's path, "/", the entry's name
path_of(n, parent, root) ==
    IF n = 0 THEN root
    ELSE path_of(parent[n], parent, root) \o <<"/", Letters[n]>>

sha256(content) == <<"sha256", content>>

\* fs::read of the file at node n
file_bytes(n) == <<n>>

\* hash_file: Ok(digest) for a file that can be read, an Err otherwise
hash_file(n, kind, ok) ==
    IF kind[n] = "file" /\ ok[n]
    THEN [ok |-> TRUE, hash |-> sha256(file_bytes(n))]
    ELSE [ok |-> FALSE, hash |-> <<>>]

NoDict == [p \in {} |-> <<>>]
BuildPanic == [panic |-> TRUE, dict |-> NoDict]

\* HashMap::extend
extend(f, g) ==
    [k \in DOMAIN f \cup DOMAIN g |-> IF k \in DOMAIN g THEN g[k] ELSE f[k]]

\* read_dir(path).unwrap(): whether the listing is there to iterate
read_dir(n, ok) == ok[n]

RECURSIVE add_to_dict(_, _, _, _, _, _, _)
RECURSIVE add_entries(_, _, _, _, _, _, _, _)
\* the loop over read_dir(path) of add_to_dict: entries is what is left of
\* the listing, acc the dictionary so far
add_entries(entries, acc, recursive, level, parent, kind, ok, root) ==
    IF entries = {} THEN [panic |-> FALSE, dict |-> acc]
    ELSE LET v == CHOOSE x \in entries : TRUE
             sub == add_to_dict(v, recursive, level + 1, parent, kind, ok, root)
         IN IF sub.panic THEN BuildPanic
            ELSE add_entries(entries \ {v}, extend(acc, sub.dict),
                             recursive, level, parent, kind, ok, root)

\* add_to_dict(path, recursive, level); a panic of read_dir(path).unwrap()
\* or of the slice [2..] ends the build
add_to_dict(n, recursive, level, parent, kind, ok, root) ==
    IF kind[n] = "dir"
    THEN IF recursive \/ level = 0
         THEN IF ~read_dir(n, ok) THEN BuildPanic
              ELSE add_entries({m \in DOMAIN parent : parent[m] = n}, NoDict,
                               recursive, level, parent, kind, ok, root)
         ELSE [panic |-> FALSE, dict |-> NoDict]
    ELSE IF hash_file(n, kind, ok).ok
         THEN LET path == path_of(n, parent, root)
              IN IF Len(path) < 2 THEN BuildPanic
                 ELSE [panic |-> FALSE,
                       dict |-> [k \in {SubSeq(path, 3, Len(path))} |->
                                    hash_file(n, kind, ok).hash]]
         ELSE [panic |-> FALSE, dict |-> NoDict]

(* --------------------------- handle_connection ------------------------- *)
NoBaseDict == [ok |-> FALSE, dict |-> EmptyManifest]

\* a parsed manifest answered at once, without diff or archive
after_parse_skip_diff(parsed) == IF parsed.ok THEN "Sending" ELSE "Closed"

\* a parse error treated like a parsed manifest
after_parse_ignore_error(parsed) == "Diffing"

\* match client_dict { Ok(..) => .., Err(e) => eprintln!(..) }
after_parse(parsed) == IF parsed.ok THEN "Diffing" ELSE "Closed"

\* an archive that could not be finalized sent all the same
after_archive_send_anyway(z) == "Sending"

\* if let Ok(compressed) = compressed { stream.write_all(..) }
after_archive(z) == IF z.ok THEN "Sending" ELSE "Closed"

\* AwaitManifest: the lines up to the blank line, joined and parsed. A read
\* error panics in result.unwrap(); a client that neither sends a blank line
\* nor closes leaves the handler in its read
handle_await(c) ==
    /\ c_pc[c] = "AwaitManifest"
    /\ LET r == read_manifest(c_stream[c])
       IN /\ r.status # "blocked"
          /\ IF r.status = "panic"
             THEN /\ c_pc' = [c_pc EXCEPT ![c] = "Panicked"]
                  /\ UNCHANGED c_dict
             ELSE /\ c_pc' = [c_pc EXCEPT ![c] = after_parse(from_str(r.text))]
                  /\ c_dict' = [c_dict EXCEPT ![c] = from_str(r.text).dict]
    /\ UNCHANGED <<baseDict, c_stream, c_diffs, c_zip, c_written, c_trace, c_runs>>

\* Diffing: read_dict("base.dict"), then diff_dict
handle_diffing(c) ==
    /\ c_pc[c] = "Diffing"
    /\ IF baseDict.ok
       THEN /\ c_diffs' = [c_diffs EXCEPT ![c] = diff_dict(c_dict[c], baseDict.dict)]
            /\ c_trace' = [c_trace EXCEPT ![c] = @ \o <<"read_dict", "diff_dict">>]
            /\ c_pc' = [c_pc EXCEPT ![c] = "Archiving"]
       ELSE /\ c_trace' = [c_trace EXCEPT ![c] = Append(@, "read_dict")]
            /\ c_pc' = [c_pc EXCEPT ![c] = "Closed"]
            /\ UNCHANGED c_diffs
    /\ UNCHANGED <<baseDict, c_stream, c_dict, c_zip, c_written, c_runs>>

\* Archiving: compress_files(&diffs); nothing is written when it fails
handle_archiving(c) ==
    /\ c_pc[c] = "Archiving"
    /\ \E finishOk \in BOOLEAN :
          LET z == compress_files(c_diffs[c], files, canOpen, finishOk)
          IN /\ c_zip' = [c_zip EXCEPT ![c] = z]
             /\ c_pc' = [c_pc EXCEPT ![c] = after_archive(z)]
    /\ c_trace' = [c_trace EXCEPT ![c] = Append(@, "compress_files")]
    /\ UNCHANGED <<baseDict, c_stream, c_dict, c_diffs, c_written, c_runs>>

\* Sending: stream.write_all(&compressed).unwrap()
handle_sending(c) ==
    /\ c_pc[c] = "Sending"
    /\ \E writeOk \in BOOLEAN :
          IF writeOk
          THEN /\ c_written' = [c_written EXCEPT ![c] = Append(@, c_zip[c].entries)]
               /\ c_pc' = [c_pc EXCEPT ![c] = "Closed"]
          ELSE /\ c_pc' = [c_pc EXCEPT ![c] = "Panicked"]
               /\ UNCHANGED c_written
    /\ c_trace' = [c_trace EXCEPT ![c] = Append(@, "write_all")]
    /\ UNCHANGED <<baseDict, c_stream, c_dict, c_diffs, c_zip, c_runs>>

handle_connection(c) ==
    /\ \/ handle_await(c)
       \/ handle_diffing(c)
       \/ handle_archiving(c)
       \/ handle_sending(c)
    /\ UNCHANGED <<diffVars, fsVars, archVars, wireVars, poolVars, buildVars, installVars>>

(* ------------------------------ ThreadPool ------------------------------ *)
\* the Receiver lives in the Arc every worker closure holds: it is dropped
\* when the last worker thread has ended
receiver_alive == \E w \in Workers : t_state[w] \notin {"exited", "dead"}

\* a receive that hands the job out and leaves it in the channel
dequeue_keep(q) == q

\* what recv leaves in the channel
dequeue(q) == Tail(q)

\* a send that puts the job ahead of the waiting ones
send_front(q, job) == <<job>> \o q

\* sender.send(job): the channel keeps the order of the sends
send(q, job) == Append(q, job)

\* the accept loop of the server: pool.execute(|| handle_connection(stream));
\* sender.send(job).unwrap() panics once the receiver is gone
execute(c) ==
    /\ m_pc = "accept"
    /\ c_pc[c] = "Idle"
    /\ \A d \in Conns : d < c => c_pc[d] # "Idle"
    /\ IF receiver_alive
       THEN /\ queue' = send(queue, c)
            /\ c_pc' = [c_pc EXCEPT ![c] = "Queued"]
            /\ UNCHANGED m_pc
       ELSE /\ m_pc' = "execute_panicked"
            /\ UNCHANGED <<queue, c_pc>>
    /\ UNCHANGED <<sender, t_state, t_job, mutex, m_join>>
    /\ UNCHANGED <<baseDict, c_stream, c_dict, c_diffs, c_zip, c_written, c_trace, c_runs>>
    /\ UNCHANGED <<diffVars, fsVars, archVars, wireVars, buildVars, installVars>>

\* Worker loop: receiver.lock().unwrap()
worker_lock(w) ==
    /\ t_state[w] = "ready"
    /\ mutex = 0
    /\ mutex' = w
    /\ t_state' = [t_state EXCEPT ![w] = "locked"]
    /\ UNCHANGED <<queue, sender, t_job, m_pc, m_join>>
    /\ UNCHANGED <<diffVars, fsVars, archVars, wireVars, connVars, buildVars, installVars>>

\* a guard that lives on while the job runs
guard_kept(w) == w

\* the MutexGuard is a temporary of the let statement: dropped at its end
guard_dropped(w) == 0

\* Worker loop: .recv() under the lock, which is released at the end of the
\* statement; Ok(job) starts the job, Err(_) (channel closed and empty) breaks.
\* stream is what the job's client sends on its connection
worker_recv(w, stream) ==
    /\ t_state[w] = "locked"
    /\ \/ /\ queue # <<>>
          /\ c_stream' = [c_stream EXCEPT ![Head(queue)] = stream]
          /\ queue' = dequeue(queue)
          /\ t_state' = [t_state EXCEPT ![w] = "running"]
          /\ t_job' = [t_job EXCEPT ![w] = Head(queue)]
          /\ c_pc' = [c_pc EXCEPT ![Head(queue)] = "AwaitManifest"]
          /\ c_runs' = [c_runs EXCEPT ![Head(queue)] = @ + 1]
       \/ /\ queue = <<>>
          /\ ~sender
          /\ t_state' = [t_state EXCEPT ![w] = "exited"]
          /\ UNCHANGED <<queue, t_job, c_pc, c_runs, c_stream>>
    /\ mutex' = guard_dropped(w)
    /\ UNCHANGED <<sender, m_pc, m_join>>
    /\ UNCHANGED <<baseDict, c_dict, c_diffs, c_zip, c_written, c_trace>>
    /\ UNCHANGED <<diffVars, fsVars, archVars, wireVars, buildVars, installVars>>

\* Worker loop: job() returns, the loop goes round
worker_done(w) ==
    /\ t_state[w] = "running"
    /\ c_pc[t_job[w]] = "Closed"
    /\ t_state' = [t_state EXCEPT ![w] = "ready"]
    /\ t_job' = [t_job EXCEPT ![w] = 0]
    /\ UNCHANGED <<queue, sender, mutex, m_pc, m_join>>
    /\ UNCHANGED <<diffVars, fsVars, archVars, wireVars, connVars, buildVars, installVars>>

\* Worker loop: job() panics; nothing catches it, the thread unwinds and ends
worker_unwind(w) ==
    /\ t_state[w] = "running"
    /\ c_pc[t_job[w]] = "Panicked"
    /\ t_state' = [t_state EXCEPT ![w] = "dead"]
    /\ UNCHANGED <<queue, sender, t_job, mutex, m_pc, m_join>>
    /\ UNCHANGED <<diffVars, fsVars, archVars, wireVars, connVars, buildVars, installVars>>

\* Drop for ThreadPool: drop(self.sender.take())
drop_pool ==
    /\ m_pc = "accept"
    /\ sender' = FALSE
    /\ m_pc' = "join"
    /\ m_join' = 1
    /\ UNCHANGED <<queue, t_state, t_job, mutex>>
    /\ UNCHANGED <<diffVars, fsVars, archVars, wireVars, connVars, buildVars, installVars>>

\* Drop for ThreadPool: thread.join().unwrap() on the workers in order; the
\* join of a panicked worker is an Err and unwrap panics
join_worker ==
    /\ m_pc = "join"
    /\ \/ /\ t_state[m_join] = "exited"
          /\ IF m_join = PoolSize
             THEN m_pc' = "dropped" /\ UNCHANGED m_join
             ELSE m_join' = m_join + 1 /\ UNCHANGED m_pc
       \/ /\ t_state[m_join] = "dead"
          /\ m_pc' = "join_panicked"
          /\ UNCHANGED m_join
    /\ UNCHANGED <<queue, sender, t_state, t_job, mutex>>
    /\ UNCHANGED <<diffVars, fsVars, archVars, wireVars, connVars, buildVars, installVars>>

(* ------------------- the pure functions, each on its own ---------------- *)
FsInit ==
    /\ canOpen \in SUBSET Paths
    /\ files \in [Paths -> Contents]
    /\ \A p \in Paths : p \notin canOpen => files[p] = <<>>

FsIdle ==
    /\ canOpen = Paths
    /\ files = [p \in Paths |-> <<1>>]

DiffInit ==
    /\ d_client \in Manifests
    /\ d_server \in Manifests
    /\ d_result = <<>>
    /\ d_done = FALSE

DiffIdle ==
    /\ d_client = EmptyManifest
    /\ d_server = EmptyManifest
    /\ d_result = <<>>
    /\ d_done = FALSE

\* a call of diff_dict
DiffCall ==
    /\ ~d_done
    /\ d_result' = diff_dict(d_client, d_server)
    /\ d_done' = TRUE
    /\ UNCHANGED <<d_client, d_server, fsVars, archVars, wireVars, connVars, poolVars, buildVars, installVars>>

ArchInit ==
    /\ z_paths \in Arrangements(Paths)
    /\ z_finishOk \in BOOLEAN
    /\ z_out = NoArchive
    /\ z_done = FALSE

ArchIdle ==
    /\ z_paths = <<>>
    /\ z_finishOk = TRUE
    /\ z_out = NoArchive
    /\ z_done = FALSE

\* a call of compress_files
ArchCall ==
    /\ ~z_done
    /\ z_out' = compress_files(z_paths, files, canOpen, z_finishOk)
    /\ z_done' = TRUE
    /\ UNCHANGED <<z_paths, z_finishOk, fsVars, diffVars, wireVars, connVars, poolVars, buildVars, installVars>>

SeqsUpTo(S, n) == UNION {[1..k -> S] : k \in 0..n}

\* the tokens a manifest file is made of
WireTokens == {LF, CR, LBrace, RBrace} \cup {KV(p, 1) : p \in Paths}

NothingRead == [status |-> "none", text |-> <<>>]
NoStream == [bytes |-> <<>>, end |-> "open"]

WireInit ==
    /\ w_content \in SeqsUpTo(WireTokens, MaxLen)
    /\ w_readable \in BOOLEAN
    /\ w_stream = NoStream
    /\ w_got = NothingRead
    /\ w_pc = "start"

WireIdle ==
    /\ w_content = <<>>
    /\ w_readable = FALSE
    /\ w_stream = NoStream
    /\ w_got = NothingRead
    /\ w_pc = "start"

\* the install client sends the file and then waits for the response, its
\* side of the connection still open
WireSend ==
    /\ w_pc = "start"
    /\ w_stream' = [bytes |-> send_file(w_content, w_readable), end |-> "open"]
    /\ w_pc' = "sent"
    /\ UNCHANGED <<w_content, w_readable, w_got, diffVars, fsVars, archVars, connVars, poolVars, buildVars, installVars>>

\* the server accumulates the lines up to the blank line
WireRead ==
    /\ w_pc = "sent"
    /\ read_manifest(w_stream).status # "blocked"
    /\ w_got' = read_manifest(w_stream)
    /\ w_pc' = "read"
    /\ UNCHANGED <<w_content, w_readable, w_stream, diffVars, fsVars, archVars, connVars, poolVars, buildVars, installVars>>

\* what a client may put on a connection
open_stream(bytes) == [bytes |-> bytes, end |-> "open"]
UnparsableStream == open_stream(send_file(<<LBrace>>, TRUE))
ReadErrorStream == [bytes |-> <<>>, end |-> "err"]
ClosedStream(m) == [bytes |-> to_string(m), end |-> "eof"]

OneManifest == [p \in {1} |-> 1]
BaseManifest == [p \in Paths |-> 1]

\* the connections of the pool's runs: a manifest sent with send_file, a text
\* that is no manifest, a client that sends nothing and waits, a read error
PoolStreams ==
    {open_stream(send_file(to_string(OneManifest), TRUE)),
     UnparsableStream, NoStream, ReadErrorStream}

\* the connections of the handler's runs
ConnStreams ==
    {open_stream(send_file(to_string(m), TRUE)) : m \in Manifests}
    \cup {ClosedStream(m) : m \in {EmptyManifest, OneManifest}}
    \cup {open_stream(send_file(<<KV(1, 1)>>, TRUE)),
          [bytes |-> <<>>, end |-> "eof"],
          UnparsableStream, NoStream, ReadErrorStream}

\* no connection accepted yet
NoConns ==
    /\ c_pc = [c \in Conns |-> "Idle"]
    /\ c_stream = [c \in Conns |-> NoStream]
    /\ c_dict = [c \in Conns |-> EmptyManifest]
    /\ c_diffs = [c \in Conns |-> <<>>]
    /\ c_zip = [c \in Conns |-> NoArchive]
    /\ c_written = [c \in Conns |-> <<>>]
    /\ c_trace = [c \in Conns |-> <<>>]
    /\ c_runs = [c \in Conns |-> 0]

ConnIdle == baseDict = NoBaseDict /\ NoConns

\* handle_connection(stream) called on connection 1
ConnInit ==
    /\ baseDict \in {NoBaseDict} \cup {[ok |-> TRUE, dict |-> m] : m \in Manifests}
    /\ c_pc = [c \in Conns |-> IF c = 1 THEN "AwaitManifest" ELSE "Idle"]
    /\ c_stream \in {[c \in Conns |-> IF c = 1 THEN st ELSE NoStream] : st \in ConnStreams}
    /\ c_dict = [c \in Conns |-> EmptyManifest]
    /\ c_diffs = [c \in Conns |-> <<>>]
    /\ c_zip = [c \in Conns |-> NoArchive]
    /\ c_written = [c \in Conns |-> <<>>]
    /\ c_trace = [c \in Conns |-> <<>>]
    /\ c_runs = [c \in Conns |-> IF c = 1 THEN 1 ELSE 0]

\* ThreadPool::new(size): the channel is empty, every worker is about to lock
PoolInit ==
    /\ queue = <<>>
    /\ sender = TRUE
    /\ t_state = [w \in Workers |-> "ready"]
    /\ t_job = [w \in Workers |-> 0]
    /\ mutex = 0
    /\ m_pc = "accept"
    /\ m_join = 0

\* the root paths given to the dict command
RootPaths == {<<".">>, <<".", "/", "r">>, <<"r">>, <<"r", "r">>}

\* the trees: every node but the root lies in a directory
BuildInit ==
    /\ \E k \in 0..MaxNodes :
          /\ b_parent \in [1..k -> 0..(k - 1)]
          /\ b_kind \in [0..k -> {"file", "dir"}]
          /\ b_ok \in [0..k -> BOOLEAN]
    /\ \A n \in DOMAIN b_parent : b_parent[n] < n /\ b_kind[b_parent[n]] = "dir"
    /\ b_root \in RootPaths
    /\ b_recursive \in BOOLEAN
    /\ b_out = [panic |-> FALSE, dict |-> NoDict]
    /\ b_done = FALSE

BuildIdle ==
    /\ b_parent = <<>>
    /\ b_kind = [n \in {0} |-> "file"]
    /\ b_ok = [n \in {0} |-> FALSE]
    /\ b_root = <<".">>
    /\ b_recursive = FALSE
    /\ b_out = [panic |-> FALSE, dict |-> NoDict]
    /\ b_done = FALSE

\* the dict command: add_to_dict(p, *recursive, 0)
BuildCall ==
    /\ ~b_done
    /\ b_out' = add_to_dict(0, b_recursive, 0, b_parent, b_kind, b_ok, b_root)
    /\ b_done' = TRUE
    /\ UNCHANGED <<b_parent, b_kind, b_ok, b_root, b_recursive>>
    /\ UNCHANGED <<diffVars, fsVars, archVars, wireVars, connVars, poolVars, installVars>>

\* no install client
NoOutput == [exists |-> FALSE, bytes |-> <<>>]

InstallIdle ==
    /\ i_pc = "idle"
    /\ i_content = <<>>
    /\ i_readable = FALSE
    /\ i_received = <<>>
    /\ i_output = NoOutput
    /\ i_error = FALSE

InitBuild ==
    /\ BuildInit /\ DiffIdle /\ FsIdle /\ ArchIdle /\ WireIdle /\ ConnIdle /\ PoolInit /\ InstallIdle
NextBuild == BuildCall
SpecBuild == InitBuild /\ [][NextBuild]_vars

InitDiff == DiffInit /\ FsIdle /\ ArchIdle /\ WireIdle /\ ConnIdle /\ PoolInit /\ BuildIdle /\ InstallIdle
NextDiff == DiffCall
SpecDiff == InitDiff /\ [][NextDiff]_vars

InitWire == WireInit /\ FsIdle /\ ArchIdle /\ DiffIdle /\ ConnIdle /\ PoolInit /\ BuildIdle /\ InstallIdle
NextWire == WireSend \/ WireRead
SpecWire == InitWire /\ [][NextWire]_vars

InitArch == ArchInit /\ FsInit /\ DiffIdle /\ WireIdle /\ ConnIdle /\ PoolInit /\ BuildIdle /\ InstallIdle
NextArch == ArchCall
SpecArch == InitArch /\ [][NextArch]_vars

(* --------------------- one connection, without the pool ----------------- *)
InitConn ==
    /\ ConnInit /\ FsInit /\ DiffIdle /\ ArchIdle /\ WireIdle /\ PoolInit /\ BuildIdle /\ InstallIdle
NextConn == \E c \in Conns : handle_connection(c)
SpecConn == InitConn /\ [][NextConn]_vars

(* ------------------------ the server with its pool ---------------------- *)
\* base.dict holds a manifest and the files it names are there
Init ==
    /\ baseDict = [ok |-> TRUE, dict |-> BaseManifest]
    /\ NoConns /\ PoolInit /\ FsIdle /\ DiffIdle /\ ArchIdle /\ WireIdle /\ BuildIdle /\ InstallIdle

Next ==
    \/ \E c \in Conns : execute(c)
    \/ \E w \in Workers : worker_lock(w)
    \/ \E w \in Workers, st \in PoolStreams : worker_recv(w, st)
    \/ \E c \in Conns : handle_connection(c)
    \/ \E w \in Workers : worker_done(w)
    \/ \E w \in Workers : worker_unwind(w)
    \/ drop_pool
    \/ join_worker

Spec == Init /\ [][Next]_vars

(* ------------------- the install client and its handler ---------------- *)
\* an output file left empty whatever was received
file_truncated(compressed) == <<>>

\* buf_writer.write_all(&compressed) on the new output.zip
file_written(compressed) == compressed

\* the manifest files given to the client with --file
InstallFiles ==
    {to_string(m) : m \in {EmptyManifest, OneManifest, BaseManifest}}
    \cup {<<LBrace>>}

\* TcpStream::connect succeeded and --file was given
InstallInit ==
    /\ i_pc = "connected"
    /\ i_readable \in BOOLEAN
    /\ i_content \in IF i_readable THEN InstallFiles ELSE {<<>>}
    /\ i_received = <<>>
    /\ i_output = NoOutput
    /\ i_error = FALSE

\* the server has accepted the client's connection as connection 1 and a
\* worker has started its handler
InstallConnInit ==
    /\ baseDict \in {NoBaseDict, [ok |-> TRUE, dict |-> BaseManifest]}
    /\ c_pc = [c \in Conns |-> IF c = 1 THEN "AwaitManifest" ELSE "Idle"]
    /\ c_stream = [c \in Conns |-> NoStream]
    /\ c_dict = [c \in Conns |-> EmptyManifest]
    /\ c_diffs = [c \in Conns |-> <<>>]
    /\ c_zip = [c \in Conns |-> NoArchive]
    /\ c_written = [c \in Conns |-> <<>>]
    /\ c_trace = [c \in Conns |-> <<>>]
    /\ c_runs = [c \in Conns |-> IF c = 1 THEN 1 ELSE 0]

\* send_file(&mut stream, file): the stream stays open behind what was sent
install_send ==
    /\ i_pc = "connected"
    /\ c_stream' = [c_stream EXCEPT ![1] = open_stream(send_file(i_content, i_readable))]
    /\ i_error' = ~i_readable
    /\ i_pc' = "reading"
    /\ UNCHANGED <<i_content, i_readable, i_received, i_output>>
    /\ UNCHANGED <<baseDict, c_pc, c_dict, c_diffs, c_zip, c_written, c_trace, c_runs>>
    /\ UNCHANGED <<diffVars, fsVars, archVars, wireVars, poolVars, buildVars>>

\* buf_reader.read_to_end(&mut compressed): returns when the server's end of
\* the connection is closed, with all it wrote, or with a transport error
install_read ==
    /\ i_pc = "reading"
    /\ c_pc[1] \in {"Closed", "Panicked"}
    /\ \E readOk \in BOOLEAN :
          IF readOk
          THEN /\ i_received' = c_written[1]
               /\ i_pc' = "received"
               /\ UNCHANGED i_error
          ELSE /\ i_error' = TRUE
               /\ i_pc' = "failed"
               /\ UNCHANGED i_received
    /\ UNCHANGED <<i_content, i_readable, i_output>>
    /\ UNCHANGED <<diffVars, fsVars, archVars, wireVars, connVars, poolVars, buildVars>>

\* File::create("output.zip")
install_create ==
    /\ i_pc = "received"
    /\ \E createOk \in BOOLEAN :
          IF createOk
          THEN /\ i_output' = [exists |-> TRUE, bytes |-> <<>>]
               /\ i_pc' = "created"
               /\ UNCHANGED i_error
          ELSE /\ i_error' = TRUE
               /\ i_pc' = "failed"
               /\ UNCHANGED i_output
    /\ UNCHANGED <<i_content, i_readable, i_received>>
    /\ UNCHANGED <<diffVars, fsVars, archVars, wireVars, connVars, poolVars, buildVars>>

\* buf_writer.write_all(&compressed), then the BufWriter goes out of scope:
\* a large archive is written through and a failure is reported; a small one
\* is written by the flush of the drop, whose failure nobody sees
install_write ==
    /\ i_pc = "created"
    /\ \E outcome \in {"ok", "err", "lost"} :
          CASE outcome = "ok" ->
                 /\ i_output' = [exists |-> TRUE, bytes |-> file_written(i_received)]
                 /\ i_pc' = "done"
                 /\ UNCHANGED i_error
            [] outcome = "err" ->
                 /\ i_error' = TRUE
                 /\ i_pc' = "failed"
                 /\ UNCHANGED i_output
            [] outcome = "lost" ->
                 /\ i_received # <<>>
                 /\ i_pc' = "unflushed"
                 /\ UNCHANGED <<i_output, i_error>>
    /\ UNCHANGED <<i_content, i_readable, i_received>>
    /\ UNCHANGED <<diffVars, fsVars, archVars, wireVars, connVars, poolVars, buildVars>>

InitInstall ==
    /\ InstallInit /\ InstallConnInit /\ FsInit
    /\ DiffIdle /\ ArchIdle /\ WireIdle /\ PoolInit /\ BuildIdle

NextInstall ==
    \/ install_send
    \/ handle_connection(1)
    \/ install_read
    \/ install_create
    \/ install_write

SpecInstall == InitInstall /\ [][NextInstall]_vars

\* both processes run: the client and the worker thread are scheduled by the
\* operating system whenever they can take a step
FairInstall == SpecInstall /\ WF_vars(NextInstall)

(* ------------------------------ claims --------------------------------- *)
ClientMismatches(c, s) == {k \in DOMAIN c : k \notin DOMAIN s \/ c[k] # s[k]}
ServerOnly(c, s) == DOMAIN s \ DOMAIN c

\* C3: diff_dict lists first every client path that is absent from the server
\* manifest or has another fingerprint there, then every server path absent
\* from the client manifest; each such path once, and no other path.
C3_DiffTwoPasses ==
    d_done =>
        LET A == ClientMismatches(d_client, d_server)
            B == ServerOnly(d_client, d_server)
            n == Len(d_result)
        IN /\ n = Cardinality(A) + Cardinality(B)
           /\ Range(SubSeq(d_result, 1, Cardinality(A))) = A
           /\ Range(SubSeq(d_result, Cardinality(A) + 1, n)) = B

C3_Witness ==
    /\ d_done
    /\ ClientMismatches(d_client, d_server) # {}
    /\ ServerOnly(d_client, d_server) # {}
    /\ \E k \in DOMAIN d_client \cap DOMAIN d_server : d_client[k] # d_server[k]

\* C9: the diff of a manifest with itself is the empty sequence.
C9_DiffSelfEmpty ==
    (d_done /\ d_client = d_server) => d_result = <<>>

C9_Witness ==
    /\ d_done
    /\ d_client = d_server
    /\ Cardinality(DOMAIN d_client) >= 2

\* C5: a path whose file cannot be opened or read has no entry in the
\* container compress_files returns, every other path has one, and a blob is
\* still returned.
C5_UnreadableSkipped ==
    (z_done /\ z_finishOk) =>
        /\ z_out.ok
        /\ \A p \in Range(z_paths) :
              p \in EntryNames(z_out.entries) <=> p \in canOpen

\* C7: the text the server accumulates before its end-of-manifest sentinel
\* parses to the same manifest as the contents of the file the client sent
\* with send_file.
C7_FramingRoundTrip ==
    (w_pc = "read" /\ from_str(w_content).ok) =>
        /\ w_got.status = "text"
        /\ from_str(w_got.text) = from_str(w_content)

Submitted(c) == c_pc[c] # "Idle"

\* C1: with more jobs than workers, every job passed to execute is started
\* once: never twice, never by two workers, and none is left unstarted once
\* the workers have emptied the channel.
C1_JobsRunOnce ==
    /\ \A c \in Conns : c_runs[c] <= 1
    /\ \A v, w \in Workers :
          (v # w /\ t_state[v] = "running" /\ t_state[w] = "running")
              => t_job[v] # t_job[w]
    /\ queue = <<>> => \A c \in Conns : Submitted(c) => c_runs[c] = 1

C1_Witness ==
    /\ MaxConns > PoolSize
    /\ queue = <<>>
    /\ \A c \in Conns : c_pc[c] = "Closed" /\ c_runs[c] = 1
    /\ \E c \in Conns : c_written[c] # <<>>
    /\ \A w \in Workers : t_state[w] = "ready"

\* C2: whatever connections failed before (in the manifest read, the parse,
\* the archive or the response write), the accept loop's execute never fails
\* and a connection waiting in the queue still has a worker to handle it.
C2_ServerKeepsRunning ==
    /\ m_pc # "execute_panicked"
    /\ \A c \in Conns : c_pc[c] = "Queued" => \E w \in Workers : t_state[w] # "dead"

ParseFailed(c) ==
    /\ c_pc[c] \notin {"Idle", "Queued", "AwaitManifest"}
    /\ read_manifest(c_stream[c]).status = "text"
    /\ ~from_str(read_manifest(c_stream[c]).text).ok

\* C6: when the accumulated text does not parse as a manifest the handler is
\* Closed at once: no byte written, base.dict not loaded, no diff, no archive.
C6_ParseFailureCloses ==
    \A c \in Conns :
        ParseFailed(c) =>
            /\ c_pc[c] = "Closed"
            /\ c_written[c] = <<>>
            /\ c_trace[c] = <<>>

C6_Witness ==
    \E c \in Conns : ParseFailed(c) /\ c_stream[c].bytes # <<>>

\* C4: the archive the server sends holds one entry per path of
\* diff(client, server), no other entry, and each entry holds the server's
\* content of its path.
C4_ArchiveIsDiffWithContent ==
    \A c \in Conns :
        c_written[c] # <<>> =>
            LET a == c_written[c][1]
                D == ClientMismatches(c_dict[c], baseDict.dict)
                         \cup ServerOnly(c_dict[c], baseDict.dict)
            IN /\ Len(a) = Cardinality(D)
               /\ EntryNames(a) = D
               /\ \A i \in 1..Len(a) :
                     a[i].name \in canOpen /\ a[i].data = files[a[i].name]

\* C8: dropping the pool returns only when every worker has exited and every
\* job enqueued before has run to completion, and no worker exits while a
\* job is still queued.
C8_ShutdownDrains ==
    /\ m_pc = "dropped" =>
          /\ \A w \in Workers : t_state[w] = "exited"
          /\ \A c \in Conns : Submitted(c) => c_pc[c] = "Closed"
    /\ m_pc # "accept" =>
          \A w \in Workers : t_state[w] \in {"exited", "dead"} => queue = <<>>

\* the files a build has in scope and can read: readable files whose
\* directories up to the root can all be listed, at depth 1 unless recursive
RECURSIVE Reachable(_)
Reachable(n) ==
    IF n = 0 THEN TRUE
    ELSE /\ b_kind[b_parent[n]] = "dir"
         /\ b_ok[b_parent[n]]
         /\ (b_recursive \/ b_parent[n] = 0)
         /\ Reachable(b_parent[n])

ReadableFilesInScope ==
    {n \in DOMAIN b_kind : b_kind[n] = "file" /\ b_ok[n] /\ Reachable(n)}

KeyOf(n) ==
    LET path == path_of(n, b_parent, b_root) IN SubSeq(path, 3, Len(path))

\* C10: in a build over a directory tree an unreadable file and an unlistable
\* subdirectory are skipped, every other readable file in scope gets its
\* entry, and the build fails only when the root path itself cannot be read.
C10_BadEntriesSkipped ==
    (b_done /\ b_kind[0] = "dir") =>
        /\ b_out.panic => ~b_ok[0]
        /\ ~b_out.panic =>
              \A n \in ReadableFilesInScope : KeyOf(n) \in DOMAIN b_out.dict

BuildOf(recursive) == add_to_dict(0, recursive, 0, b_parent, b_kind, b_ok, b_root)

\* the readable files below the root whose directories can all be listed
RECURSIVE Listable(_)
Listable(n) ==
    IF n = 0 THEN TRUE
    ELSE b_ok[b_parent[n]] /\ Listable(b_parent[n])

\* C11: a non-recursive build has entries only for the files that are
\* immediate children of the root, a subdirectory causing no error, and the
\* recursive build of the same tree has every entry of the non-recursive one
\* plus an entry for every descendant file (that can be read).
C11_RecursiveSuperset ==
    (b_done /\ b_kind[0] = "dir" /\ b_ok[0]) =>
        LET flat == BuildOf(FALSE)
            deep == BuildOf(TRUE)
        IN /\ ~flat.panic
           /\ DOMAIN flat.dict \subseteq
                  {KeyOf(n) : n \in {m \in DOMAIN b_parent : b_parent[m] = 0 /\ b_kind[m] = "file"}}
           /\ ~deep.panic
           /\ \A k \in DOMAIN flat.dict : k \in DOMAIN deep.dict /\ deep.dict[k] = flat.dict[k]
           /\ \A n \in DOMAIN b_parent :
                 (b_kind[n] = "file" /\ b_ok[n] /\ Listable(n)) => KeyOf(n) \in DOMAIN deep.dict

\* C12: a build whose root path names a single readable file returns a
\* manifest with exactly one entry, whatever the root path string is.
C12_SingleFileOneEntry ==
    (b_done /\ b_kind[0] = "file" /\ b_ok[0]) =>
        /\ ~b_out.panic
        /\ Cardinality(DOMAIN b_out.dict) = 1

\* the handler's states in their order; a panic unwinds the handler and drops
\* the stream, which closes the connection as a return does
HandlerRank(pc) ==
    CASE pc = "AwaitManifest" -> 1
      [] pc = "Diffing" -> 2
      [] pc = "Archiving" -> 3
      [] pc = "Sending" -> 4
      [] pc \in {"Closed", "Panicked"} -> 5
      [] OTHER -> 0

HandlerClosed(c) == c_pc[c] \in {"Closed", "Panicked"}

\* C13: every handler moves through AwaitManifest, Diffing, Archiving,
\* Sending, Closed in that order, never back and never skipping a state
\* except by jumping to Closed; bytes are written only in Sending, only after
\* the whole manifest has been read, and at most once per connection.
C13_HandlerOrder ==
    [][\A c \in Conns :
          /\ (c_pc[c] # c_pc'[c] /\ HandlerRank(c_pc[c]) > 0) =>
                \/ HandlerRank(c_pc'[c]) = HandlerRank(c_pc[c]) + 1
                \/ HandlerClosed(c)'
          /\ c_written[c] # c_written'[c] =>
                /\ c_pc[c] = "Sending"
                /\ read_manifest(c_stream[c]).status = "text"
                /\ c_written[c] = <<>>
                /\ Len(c_written'[c]) = 1]_vars

C13_Witness ==
    \E c \in Conns :
        /\ c_pc[c] = "Closed"
        /\ Len(c_written[c]) = 1
        /\ c_trace[c] = <<"read_dict", "diff_dict", "compress_files", "write_all">>

WorkerAlive(w) == t_state[w] \notin {"exited", "dead"}

\* C14: in every reachable state before pool shutdown exactly N workers are
\* alive: a worker leaves its loop only when the queue has been closed and is
\* empty, whatever the jobs it ran did.
C14_WorkersStayAlive ==
    /\ sender => \A w \in Workers : WorkerAlive(w)
    /\ \A w \in Workers : ~WorkerAlive(w) => (~sender /\ queue = <<>>)

\* the connection has been taken out of the channel by a worker
Dequeued(c) == c_pc[c] \notin {"Idle", "Queued"}

\* C15: jobs are claimed in FIFO order: if job A is passed to execute before
\* job B, A is dequeued before B under every interleaving of the workers.
\* The accept loop passes the connections to execute in the order 1, 2, ...
C15_FifoClaim ==
    /\ \A a, b \in Conns : (a < b /\ Dequeued(b)) => Dequeued(a)
    /\ \A i, j \in 1..Len(queue) : i < j => queue[i] < queue[j]

C15_Witness ==
    /\ \E v, w \in Workers : v # w /\ t_job[v] = 2 /\ t_job[w] = 1
    /\ Dequeued(1) /\ Dequeued(2)
    /\ queue = <<3>>

\* an empty line: a line feed at the start, after a line feed, or after a
\* carriage return that stands alone on its line
HasBlankLine(bytes) ==
    \E i \in 1..Len(bytes) :
        /\ bytes[i] = LF
        /\ \/ i = 1
           \/ bytes[i - 1] = LF
           \/ bytes[i - 1] = CR /\ (i = 2 \/ bytes[i - 2] = LF)

\* the handler of c waits for a client that neither sends a blank line nor
\* ends its stream
Stalled(c) ==
    /\ c_pc[c] = "AwaitManifest"
    /\ c_stream[c].end = "open"
    /\ ~HasBlankLine(c_stream[c].bytes)

AllStalled ==
    \A w \in Workers : t_state[w] = "running" /\ Stalled(t_job[w])

\* C16: a connection whose client neither sends a blank line nor ends its
\* stream keeps its worker in AwaitManifest forever; once N such connections
\* have been claimed the accept loop still enqueues later connections
\* without blocking, but none of those later jobs is ever started.
C16_StalledForever ==
    /\ [][\A c \in Conns : Stalled(c) => Stalled(c)']_vars
    /\ [][AllStalled =>
            /\ AllStalled'
            /\ \A c \in Conns : ~Dequeued(c) => ~Dequeued(c)']_vars
    /\ []((AllStalled /\ m_pc = "accept") =>
            \A c \in Conns :
                (c_pc[c] = "Idle" /\ \A d \in Conns : d < c => c_pc[d] # "Idle") =>
                    /\ receiver_alive
                    /\ ENABLED execute(c))

C16_Witness ==
    /\ AllStalled
    /\ queue # <<>>
    /\ \A c \in Conns : c_pc[c] # "Idle"

\* the client's manifest arrived and parsed
ManifestParsed(c) ==
    /\ read_manifest(c_stream[c]).status = "text"
    /\ from_str(read_manifest(c_stream[c]).text).ok

\* parse, load of base.dict and finalization of the archive all succeeded
AllSucceeded(c) == ManifestParsed(c) /\ baseDict.ok /\ c_zip[c].ok

WriteIssued(c) == \E i \in 1..Len(c_trace[c]) : c_trace[c][i] = "write_all"

\* C17: a handler writes response bytes to its connection if and only if
\* the client manifest parsed, the server manifest was loaded and the archive
\* was finalized; in every other case the connection is closed with zero
\* bytes written, as for a parse failure. (Writing is the handler's call of
\* write_all; on a connection it returned from, the bytes are there.)
C17_WriteIffAllSucceeded ==
    \A c \in Conns :
        /\ c_written[c] # <<>> => (AllSucceeded(c) /\ WriteIssued(c))
        /\ HandlerClosed(c) =>
              /\ WriteIssued(c) <=> AllSucceeded(c)
              /\ (AllSucceeded(c) /\ c_pc[c] = "Closed") =>
                    c_written[c] = <<c_zip[c].entries>>
              /\ ~AllSucceeded(c) => c_written[c] = <<>>
              /\ (~AllSucceeded(c) /\ read_manifest(c_stream[c]).status = "text") =>
                    c_pc[c] = "Closed"

C17_Witness ==
    /\ \E c \in Conns :
          /\ c_pc[c] = "Closed" /\ AllSucceeded(c)
          /\ c_written[c] = <<c_zip[c].entries>>
          /\ c_zip[c].entries # <<>>

\* the handlers that have been started and have not ended
Running == {c \in Conns : Dequeued(c) /\ ~HandlerClosed(c)}

\* C18: a worker holds the queue lock only while it dequeues, never while it
\* runs a job; while a worker runs a job an idle worker can still dequeue and
\* start a queued job, so up to N jobs run at the same time, never more.
C18_LockOnlyWhileDequeuing ==
    /\ \A w \in Workers : mutex = w <=> t_state[w] = "locked"
    /\ \A w \in Workers :
          (t_state[w] = "ready" /\ mutex = 0) => ENABLED worker_lock(w)
    /\ \A w \in Workers :
          (t_state[w] = "locked" /\ queue # <<>>) =>
              ENABLED (\E st \in PoolStreams : worker_recv(w, st))
    /\ Cardinality(Running) <= PoolSize
    /\ \A c \in Running : \E w \in Workers : t_state[w] = "running" /\ t_job[w] = c

C18_Witness ==
    /\ Cardinality(Running) = PoolSize
    /\ \E c \in Running : Stalled(c)
    /\ \E c \in Running : ~Stalled(c)

ClientStoppedReading ==
    i_pc \in {"received", "created", "done", "unflushed", "failed"}

\* C19: whenever the install client is given a file path and its connection
\* succeeds, the exchange terminates: the client eventually stops reading and
\* the server's handler eventually reaches Closed, also when the client
\* cannot open or read the file and sends nothing.
C19_ExchangeTerminates ==
    (i_pc = "connected") ~> (ClientStoppedReading /\ HandlerClosed(1))

\* C20: once the client's read completes, the output file it writes holds
\* exactly the bytes the server wrote on the connection; when the server
\* closed without a response the client still creates the output file, with
\* zero bytes, and reports no error. (The file it writes: output.zip could
\* be created and written.)
C20_OutputIsResponse ==
    /\ i_pc \in {"received", "created", "done"} =>
          /\ HandlerClosed(1)
          /\ i_received = c_written[1]
          /\ ~i_error
    /\ i_pc = "done" => i_output = [exists |-> TRUE, bytes |-> c_written[1]]
    /\ (i_pc = "done" /\ ~AllSucceeded(1)) =>
          i_output = [exists |-> TRUE, bytes |-> <<>>]

C20_Witness ==
    /\ i_pc = "done"
    /\ c_pc[1] = "Closed"
    /\ ~AllSucceeded(1)
    /\ i_output.exists /\ i_output.bytes = <<>>
    /\ ~i_error

====
